---- MODULE Spec2Model ----
(***************************************************************************)
(* The two Pangeo ocean notebooks (ECCO v4r3 and sea-surface altimetry)    *)
(* as a state machine: a kernel that executes the code cells statement by  *)
(* statement, the lazy array engine the statements build expressions with, *)
(* the chunked remote store the expressions are read from, and the         *)
(* adaptive worker pool created by the cluster cell.                       *)
(***************************************************************************)
EXTENDS Integers, Sequences, FiniteSets, TLC

(***************************************************************************)
(* Sizes.  The ECCO array shape and chunk shape are those printed in the   *)
(* notebook: shape (288, 50, 13, 90, 90), chunksize (1, 50, 13, 90, 90).   *)
(***************************************************************************)
NTime == 288
NLevel == 50
ChunkTime == 1
ChunkLevel == 50
NFace == 13

\* length of the altimetry time axis kept by the model
NSlaTime == 3
\* largest number of workers the scheduler's load can ask for
MaxDemand == 21

EccoMinimum == 1
EccoMaximum == 10
AltMinimum == 1
AltMaximum == 20
DocumentedNodes == 5
WorkerMemoryGB == 20

Notebooks == {"ecco", "alt"}

(***************************************************************************)
(* Values a notebook name can be bound to.                                 *)
(***************************************************************************)
Unbound == [type |-> "unbound"]
Object == [type |-> "object"]
Err(what) == [type |-> "error", what |-> what]
IsErr(v) == v.type = "error"

IndexCoords == {"time", "k", "face", "j", "i", "i_g", "j_g", "latitude", "longitude"}

\* dimensions of the variables the notebooks name
VarDims(v) ==
    CASE v \in {"THETA", "SALT"} -> {"time", "k", "face", "j", "i"}
      [] v \in {"ADVx_TH", "DFxE_TH"} -> {"time", "k", "face", "j", "i_g"}
      [] v \in {"ADVy_TH", "DFyE_TH"} -> {"time", "k", "face", "j_g", "i"}
      [] v = "TFLUX" -> {"time", "face", "j", "i"}
      [] v \in {"Depth", "rA"} -> {"face", "j", "i"}
      [] v = "hFacC" -> {"k", "face", "j", "i"}
      [] v = "Z" -> {"k"}
      [] v = "sla" -> {"time", "latitude", "longitude"}
      [] OTHER -> {v}

\* number of time steps of a variable's store
TimeLen(v) == IF v = "sla" THEN NSlaTime ELSE NTime

\* the dataset handle the catalog resolves a name to: metadata only
Catalog(name) ==
    IF name = "ECCOv4r3"
    THEN [type |-> "dataset",
          vars |-> {"THETA", "SALT", "ADVx_TH", "ADVy_TH", "DFxE_TH", "DFyE_TH", "TFLUX"},
          coords |-> {"time", "k", "face", "j", "i", "i_g", "j_g",
                      "Depth", "rA", "hFacC", "Z"}]
    ELSE [type |-> "dataset",
          vars |-> {"sla"},
          coords |-> {"time", "latitude", "longitude"}]

\* variant: the coordinates are read from the stored dataset each time
CoordsToDatasetFromStore(d) ==
    [type |-> "dataset", vars |-> {}, coords |-> Catalog("ECCOv4r3").coords]

\* ds.coords.to_dataset(): a dataset holding only the coordinates
CoordsToDataset(d) == [type |-> "dataset", vars |-> {}, coords |-> d.coords]

\* variant: drop=True is ignored, the coordinates are kept as data variables
ResetCoordsKeepsAll(d, drop) ==
    [type |-> "dataset",
     vars |-> d.vars \cup (d.coords \ IndexCoords),
     coords |-> d.coords \cap IndexCoords]

\* Dataset.reset_coords(drop): non-index coordinates become data variables,
\* or are dropped when drop=True
ResetCoords(d, drop) ==
    [type |-> "dataset",
     vars |-> IF drop THEN d.vars ELSE d.vars \cup (d.coords \ IndexCoords),
     coords |-> d.coords \cap IndexCoords]

\* the part of a stored variable an expression depends on
Region(v) ==
    [var |-> v,
     t0 |-> 0, t1 |-> IF "time" \in VarDims(v) THEN TimeLen(v) - 1 ELSE 0,
     k0 |-> 0, k1 |-> IF "k" \in VarDims(v) THEN NLevel - 1 ELSE 0]

\* ds.NAME / ds[NAME]: a lazy array over the whole stored variable
LazyVar(v) ==
    [type |-> "array", dims |-> VarDims(v), deps |-> {Region(v)}, loaded |-> FALSE,
     attrs |-> {}]

Min(a, b) == IF a < b THEN a ELSE b
Max(a, b) == IF a > b THEN a ELSE b


(***************************************************************************)
(* Expressions of the notebook statements, as syntax trees.  Every node is *)
(* [e, kids, a]: the operation, the operand expressions, its parameter.    *)
(***************************************************************************)
Node(e, kids, a) == [e |-> e, kids |-> kids, a |-> a]
N(id) == Node("name", <<>>, id)
Num(n) == Node("num", <<>>, n)
Table(t) == Node("table", <<>>, t)
Attr(x, a) == Node("attr", <<x>>, a)
Sel(x, dim, label) == Node("sel", <<x>>, <<dim, label>>)
SelNearest(x, dim, label) == Node("sel_nearest", <<x>>, <<dim, label>>)
ISel(x, dim, idx) == Node("isel", <<x>>, <<dim, idx>>)
Reduce(x, fn, dims) == Node("reduce", <<x>>, <<fn, dims>>)
GroupBy(x, key) == Node("groupby", <<x>>, key)
Bin(x, y) == Node("bin", <<x, y>>, "arith")
Same(x, fn) == Node("same", <<x>>, fn)
SwapDims(x, old, new) == Node("swap_dims", <<x>>, <<old, new>>)
Load(x) == Node("load", <<x>>, "load")
Call(args, fn) == Node("call", args, fn)
Vector(x, y) == Node("vector", <<x, y>>, "dict")
Diff2D(g, v, boundary) == Node("diff_2d_vector", <<g, v>>, boundary)
Item(x, key) == Node("item", <<x>>, key)
Grid(d, fc, periodic) == Node("grid", <<d, fc>>, periodic)
LLCMapper(c) == Node("mapper", <<c>>, "LLCMapper")
MapCall(m, x) == Node("mapcall", <<m, x>>, "__call__")
Plot(x) == Node("plot", <<x>>, "plot")
PlotOn(x, ax) == Node("plot", <<x, ax>>, "plot")
CoordsDS(x) == Node("coords_to_dataset", <<x>>, "coords")
ResetC(x, drop) == Node("reset_coords", <<x>>, drop)
HvDataset(x) == Node("hv", <<x>>, "Dataset")
HvTo(x) == Node("hvto", <<x>>, "Image")
Regrid(x) == Node("regrid", <<x>>, "precompute")

\* position of a time label on a variable's time axis: the ECCO axis is
\* monthly from January 1992, the altimetry axis daily from 1 January 1993
DateIndex(v, date) ==
    IF v = "sla"
    THEN (date[1] - 1993) * 365 + (date[1] - 1993) \div 4 + (date[3] - 1)
    ELSE (date[1] - 1992) * 12 + (date[2] - 1)

\* position selected on a dimension of a stored variable, -1 when the
\* label is not on the axis
LabelIndex(v, dim, label, nearest) ==
    IF dim = "time"
    THEN LET i == DateIndex(v, label) IN
         IF nearest THEN Max(0, Min(TimeLen(v) - 1, i))
         ELSE IF i >= 0 /\ i < TimeLen(v) THEN i ELSE -1
    ELSE IF label >= 0 /\ label < NLevel THEN label ELSE -1

\* a region narrowed to one position of a dimension
Narrow(r, dim, i) ==
    IF dim = "time" /\ "time" \in VarDims(r.var) THEN [r EXCEPT !.t0 = i, !.t1 = i]
    ELSE IF dim = "k" /\ "k" \in VarDims(r.var) THEN [r EXCEPT !.k0 = i, !.k1 = i]
    ELSE r

\* DataArray.sel / isel with a scalar: the dimension is dropped and every
\* dependency narrowed; the label is resolved on each variable's own axis
SelectArray(arr, dim, label, byLabel, nearest) ==
    IF arr.type # "array" THEN Err("AttributeError")
    ELSE IF dim \notin arr.dims THEN Err("ValueError")
    ELSE LET idx(r) == IF byLabel THEN LabelIndex(r.var, dim, label, nearest) ELSE label IN
         IF \E r \in arr.deps : idx(r) < 0 THEN Err("KeyError")
         ELSE [arr EXCEPT !.dims = @ \ {dim},
                          !.deps = {Narrow(r, dim, idx(r)) : r \in arr.deps}]

\* mean / sum / std over dimensions: the dimensions are dropped, lazily
ReduceArray(arr, dims) ==
    IF arr.type = "groupby"
    THEN IF dims \subseteq arr.arr.dims
         THEN [arr.arr EXCEPT !.dims = (@ \ dims) \cup {"month"}]
         ELSE Err("ValueError")
    ELSE IF arr.type # "array" THEN Err("AttributeError")
    ELSE IF ~(dims \subseteq arr.dims) THEN Err("ValueError")
    ELSE [arr EXCEPT !.dims = @ \ dims]

\* arithmetic of two operands: xarray broadcasts over the union of the
\* dimensions; the result is in memory only if both operands are
Arith(x, y) ==
    CASE x.type = "number" /\ y.type = "number" -> x
      [] x.type = "number" /\ y.type = "array" -> y
      [] x.type = "array" /\ y.type = "number" -> x
      [] x.type = "array" /\ y.type = "array" ->
            [type |-> "array", dims |-> x.dims \cup y.dims,
             deps |-> x.deps \cup y.deps, loaded |-> x.loaded /\ y.loaded,
             attrs |-> x.attrs \cup y.attrs]
      [] x.type = "groupby" /\ y.type = "array" ->
            [type |-> "array", dims |-> x.arr.dims \cup (y.dims \ {"month"}),
             deps |-> x.arr.deps \cup y.deps, loaded |-> x.arr.loaded /\ y.loaded,
             attrs |-> x.arr.attrs \cup y.attrs]
      [] OTHER -> Err("TypeError")

\* the array once its data is in memory
Loaded(arr) == [arr EXCEPT !.deps = {}, !.loaded = TRUE]

\* variant: the difference stays at the position of its operand
ShiftAxisStays(arr, from, to) == arr

\* xgcm Grid.diff_2d_vector: the X component is differenced along X, from
\* the i_g position to the centre i, the Y component along Y, j_g to j
ShiftAxis(arr, from, to) ==
    IF from \in arr.dims THEN [arr EXCEPT !.dims = (@ \ {from}) \cup {to}]
    ELSE IF to \in arr.dims THEN [arr EXCEPT !.dims = (@ \ {to}) \cup {from}]
    ELSE Err("ValueError")

DiffVector(g, v) ==
    IF g.type # "grid" \/ v.type # "vector" THEN Err("TypeError")
    ELSE IF v.X.type # "array" \/ v.Y.type # "array" THEN Err("TypeError")
    ELSE LET dx == ShiftAxis(v.X, "i_g", "i")
             dy == ShiftAxis(v.Y, "j_g", "j") IN
         IF IsErr(dx) THEN dx ELSE IF IsErr(dy) THEN dy
         ELSE [type |-> "vector", X |-> dx, Y |-> dy]

FirstErr(vs) ==
    IF \E i \in 1..Len(vs) : IsErr(vs[i])
    THEN vs[CHOOSE i \in 1..Len(vs) : IsErr(vs[i]) /\ \A j \in 1..(i-1) : ~IsErr(vs[j])]
    ELSE Unbound

\* the value of an expression in a namespace; building it reads no data
RECURSIVE Eval(_, _)
Eval(x, ns) ==
    LET vs == [i \in 1..Len(x.kids) |-> Eval(x.kids[i], ns)] IN
    IF x.e = "name" THEN (IF ns[x.a].type = "unbound" THEN Err("NameError") ELSE ns[x.a])
    ELSE IF IsErr(FirstErr(vs)) THEN FirstErr(vs)
    ELSE CASE x.e = "num" -> [type |-> "number"]
           [] x.e = "table" -> [type |-> "topology", table |-> x.a]
           [] x.e = "attr" ->
                IF vs[1].type = "dataset" /\ x.a \in vs[1].vars \cup vs[1].coords
                THEN LazyVar(x.a) ELSE Err("AttributeError")
           [] x.e = "sel" -> SelectArray(vs[1], x.a[1], x.a[2], TRUE, FALSE)
           [] x.e = "sel_nearest" -> SelectArray(vs[1], x.a[1], x.a[2], TRUE, TRUE)
           [] x.e = "isel" -> SelectArray(vs[1], x.a[1], x.a[2], FALSE, FALSE)
           [] x.e = "reduce" -> ReduceArray(vs[1], x.a[2])
           [] x.e = "groupby" ->
                IF vs[1].type = "array" /\ "time" \in vs[1].dims
                THEN [type |-> "groupby", arr |-> vs[1]] ELSE Err("ValueError")
           [] x.e = "bin" -> Arith(vs[1], vs[2])
           [] x.e = "same" -> IF vs[1].type = "array" THEN vs[1] ELSE Err("AttributeError")
           [] x.e = "swap_dims" ->
                IF vs[1].type = "array" /\ x.a[1] \in vs[1].dims /\ x.a[2] \in vs[1].attrs
                THEN [vs[1] EXCEPT !.dims = (@ \ {x.a[1]}) \cup {x.a[2]}]
                ELSE Err("ValueError")
           [] x.e = "load" -> IF vs[1].type = "array" THEN Loaded(vs[1]) ELSE Err("AttributeError")
           [] x.e = "vector" -> [type |-> "vector", X |-> vs[1], Y |-> vs[2]]
           [] x.e = "diff_2d_vector" -> DiffVector(vs[1], vs[2])
           [] x.e = "item" ->
                IF vs[1].type # "vector" THEN Err("TypeError")
                ELSE IF x.a = "X" THEN vs[1].X ELSE vs[1].Y
           [] x.e = "coords_to_dataset" ->
                IF vs[1].type = "dataset" THEN CoordsToDataset(vs[1])
                ELSE Err("AttributeError")
           [] x.e = "reset_coords" ->
                IF vs[1].type = "dataset" THEN ResetCoords(vs[1], x.a)
                ELSE Err("AttributeError")
           [] x.e = "grid" ->
                IF vs[1].type = "dataset" /\ vs[2].type = "topology"
                THEN [type |-> "grid", periodic |-> x.a, topology |-> vs[2].table]
                ELSE Err("TypeError")
           [] x.e = "mapper" ->
                IF vs[1].type = "dataset" THEN [type |-> "mapper", coords |-> vs[1]]
                ELSE Err("AttributeError")
           [] x.e = "mapcall" ->
                IF vs[1].type = "mapper" /\ vs[2].type = "array" THEN vs[2]
                ELSE Err("TypeError")
           [] x.e = "plot" -> IF vs[1].type = "array" THEN vs[1] ELSE Err("AttributeError")
           [] x.e = "hv" ->
                IF vs[1].type = "array" THEN [type |-> "hv", arr |-> vs[1]]
                ELSE Err("TypeError")
           [] x.e = "hvto" -> IF vs[1].type = "hv" THEN vs[1] ELSE Err("AttributeError")
           [] x.e = "regrid" ->
                IF vs[1].type = "hv" THEN SelectArray(vs[1].arr, "time", 0, FALSE, FALSE)
                ELSE Err("TypeError")
           [] OTHER -> Object

\* the names an expression reads
RECURSIVE Reads(_)
Reads(x) ==
    IF x.e = "name" THEN {x.a}
    ELSE UNION {Reads(x.kids[i]) : i \in 1..Len(x.kids)}

RECURSIVE Flatten(_)
Flatten(ss) == IF ss = <<>> THEN <<>> ELSE Head(ss) \o Flatten(Tail(ss))

IsLazy(v) == v.type = "array" /\ ~v.loaded

\* the lazy arrays whose .load() an expression calls, in evaluation order
RECURSIVE Loads(_, _)
Loads(x, ns) ==
    Flatten([i \in 1..Len(x.kids) |-> Loads(x.kids[i], ns)])
      \o (IF x.e = "load" /\ IsLazy(Eval(x.kids[1], ns))
          THEN <<Eval(x.kids[1], ns)>> ELSE <<>>)


(***************************************************************************)
(* The face connectivity handed to xgcm.Grid: for each face and axis the   *)
(* neighbour at the left and at the right side, <<face, axis, reverse>>,   *)
(* or None where the panel edge is open.                                   *)
(***************************************************************************)
None == <<>>
Faces == 0..(NFace - 1)
Axes == {"X", "Y"}
Sides == {1, 2}

FaceEntry(f) ==
       CASE f = 0 -> [X |-> << <<12, "Y", FALSE>>, <<3, "X", FALSE>> >>,
                      Y |-> << None,               <<1, "Y", FALSE>> >>]
         [] f = 1 -> [X |-> << <<11, "Y", FALSE>>, <<4, "X", FALSE>> >>,
                      Y |-> << <<0, "Y", FALSE>>,  <<2, "Y", FALSE>> >>]
         [] f = 2 -> [X |-> << <<10, "Y", FALSE>>, <<5, "X", FALSE>> >>,
                      Y |-> << <<1, "Y", FALSE>>,  <<6, "X", FALSE>> >>]
         [] f = 3 -> [X |-> << <<0, "X", FALSE>>,  <<9, "Y", FALSE>> >>,
                      Y |-> << None,               <<4, "Y", FALSE>> >>]
         [] f = 4 -> [X |-> << <<1, "X", FALSE>>,  <<8, "Y", FALSE>> >>,
                      Y |-> << <<3, "Y", FALSE>>,  <<5, "Y", FALSE>> >>]
         [] f = 5 -> [X |-> << <<2, "X", FALSE>>,  <<7, "Y", FALSE>> >>,
                      Y |-> << <<4, "Y", FALSE>>,  <<6, "Y", FALSE>> >>]
         [] f = 6 -> [X |-> << <<2, "Y", FALSE>>,  <<7, "X", FALSE>> >>,
                      Y |-> << <<5, "Y", FALSE>>,  <<10, "X", FALSE>> >>]
         [] f = 7 -> [X |-> << <<6, "X", FALSE>>,  <<8, "X", FALSE>> >>,
                      Y |-> << <<5, "X", FALSE>>,  <<10, "Y", FALSE>> >>]
         [] f = 8 -> [X |-> << <<7, "X", FALSE>>,  <<9, "X", FALSE>> >>,
                      Y |-> << <<4, "X", FALSE>>,  <<11, "Y", FALSE>> >>]
         [] f = 9 -> [X |-> << <<8, "X", FALSE>>,  None >>,
                      Y |-> << <<3, "X", FALSE>>,  <<12, "Y", FALSE>> >>]
         [] f = 10 -> [X |-> << <<6, "Y", FALSE>>,  <<11, "X", FALSE>> >>,
                       Y |-> << <<7, "Y", FALSE>>,  <<2, "X", FALSE>> >>]
         [] f = 11 -> [X |-> << <<10, "X", FALSE>>, <<12, "X", FALSE>> >>,
                       Y |-> << <<8, "Y", FALSE>>,  <<1, "X", FALSE>> >>]
         [] f = 12 -> [X |-> << <<11, "X", FALSE>>, None >>,
                       Y |-> << <<9, "Y", FALSE>>,  <<0, "X", FALSE>> >>]

\* variant: face 6 names face 10 on the wrong axis, so the link is one-way
face_connections_oneway ==
    [f \in 0..12 |->
       IF f = 6 THEN [X |-> FaceEntry(6).X,
                      Y |-> << <<5, "Y", FALSE>>, <<10, "Y", FALSE>> >>]
       ELSE FaceEntry(f)]

\* variant: the link between faces 4 and 5 is left out on both sides
face_connections_open ==
    [f \in 0..12 |->
       CASE f = 4 -> [X |-> FaceEntry(4).X, Y |-> << <<3, "Y", FALSE>>, None >>]
         [] f = 5 -> [X |-> FaceEntry(5).X, Y |-> << None, <<6, "Y", FALSE>> >>]
         [] OTHER -> FaceEntry(f)]

face_connections == [f \in 0..12 |-> FaceEntry(f)]


(***************************************************************************)
(* The code cells.  A statement is [line, op, targets, expr, arg]:         *)
(*   local      imports, magics, matplotlib calls: no external effect      *)
(*   resolve    targets = intake.cat.<arg>.to_dask()                       *)
(*   assign     targets = expr                                             *)
(*   expr       an expression statement (a display, or a .load())          *)
(*   render     a plot of expr; targets receive the figure objects         *)
(*   mapper     targets = LLCMapper(coords)                                *)
(*   provision  targets = KubeCluster()                                    *)
(*   adapt      cluster.adapt(minimum=arg[1], maximum=arg[2])              *)
(*   connect    targets = Client(cluster)                                  *)
(*   setitem    targets[1].coords[arg] = value, in place                   *)
(*   setattr    targets[1].<arg> = value, in place                         *)
(***************************************************************************)
S(line, op, targets, expr, arg) ==
    [line |-> line, op |-> op, targets |-> targets, expr |-> expr, arg |-> arg]
Import(line) == S(line, "local", <<>>, Call(<<>>, "import"), "import")
Local(line, targets, args) == S(line, "local", targets, Call(args, "call"), "call")
Assign(line, target, expr) == S(line, "assign", <<target>>, expr, "=")
Show(line, expr) == S(line, "expr", <<>>, expr, "display")
Render(line, targets, expr) == S(line, "render", targets, expr, "plot")

Var(v) == Attr(N("ds"), v)
Coord(v) == Attr(N("coords"), v)
VInt(v) == Reduce(Reduce(Var(v), "sum", {"k"}), "mean", {"time"})
Watts(conv) ==
    Bin(Bin(N("rho0"), N("cp")), Load(Same(Bin(N(conv), Coord("rA")), "fillna")))

EccoCells ==
  << << Import(20), Import(21), Import(22), Import(23) >>,
     << Import(50),
        S(51, "resolve", <<"ds">>, Call(<<>>, "to_dask"), "ECCOv4r3"),
        Show(52, N("ds")) >>,
     << Assign(73, "coords", ResetC(CoordsDS(N("ds")), FALSE)),
        Assign(74, "ds", ResetC(N("ds"), TRUE)) >>,
     << Render(98, <<>>, Plot(Coord("Depth"))) >>,
     << Import(118),
        S(119, "mapper", <<"mapper">>, LLCMapper(N("coords")), "LLCMapper"),
        Render(120, <<>>, MapCall(N("mapper"), Coord("Depth"))) >>,
     << Assign(140, "sst", Sel(Sel(Var("THETA"), "time", <<2000, 1, 15>>), "k", 0)),
        Show(141, N("sst")) >>,
     << Render(157, <<>>, MapCall(N("mapper"), N("sst"))) >>,
     << Assign(175, "mean_sst", Reduce(Sel(Var("THETA"), "k", 0), "mean", {"time"})),
        Show(176, N("mean_sst")) >>,
     << Show(192, Load(N("mean_sst"))) >>,
     << Render(201, <<>>, MapCall(N("mapper"), N("mean_sst"))) >>,
     << Import(223), Import(224),
        S(225, "provision", <<"cluster">>, Call(<<>>, "KubeCluster"), "KubeCluster"),
        S(226, "adapt", <<>>, Call(<<N("cluster")>>, "adapt"), <<EccoMinimum, EccoMaximum>>),
        Show(227, N("cluster")) >>,
     << Show(243, Load(Reduce(ISel(Var("THETA"), "k", 0), "mean", {"time"}))) >>,
     << Assign(262, "theta_clim",
               Reduce(GroupBy(Var("THETA"), "time.month"), "mean", {"time"})),
        Assign(264, "theta_anom",
               Bin(GroupBy(Var("THETA"), "time.month"), N("theta_clim"))),
        Assign(265, "rho0", Num(1029)),
        Assign(266, "cp", Num(3994)),
        Assign(267, "ohc",
               Bin(Bin(N("rho0"), N("cp")),
                   Reduce(Bin(Bin(N("theta_anom"), Coord("rA")), Coord("hFacC")),
                          "sum", {"face", "j", "i"}))),
        Show(270, N("ohc")) >>,
     << Show(280, Load(N("ohc"))),
        S(282, "setitem", <<"ohc">>, Call(<<N("ohc"), Coord("Z")>>, "setitem"), "Z"),
        Render(283, <<>>, Plot(Same(SwapDims(N("ohc"), "k", "Z"), "transpose"))) >>,
     << Import(316),
        Assign(319, "face_connections", Table(face_connections)),
        Assign(348, "grid", Grid(N("ds"), N("face_connections"), FALSE)),
        Show(349, N("grid")) >>,
     << Assign(366, "advx_th_vint", VInt("ADVx_TH")),
        Assign(367, "advy_th_vint", VInt("ADVy_TH")),
        Assign(370, "diff_ADV_th",
               Diff2D(N("grid"), Vector(N("advx_th_vint"), N("advy_th_vint")), "fill")),
        Assign(372, "conv_ADV_th",
               Bin(Same(Item(N("diff_ADV_th"), "X"), "neg"), Item(N("diff_ADV_th"), "Y"))),
        Show(373, N("conv_ADV_th")) >>,
     << Assign(383, "difx_th_vint", VInt("DFxE_TH")),
        Assign(384, "dify_th_vint", VInt("DFyE_TH")),
        Assign(387, "diff_DIF_th",
               Diff2D(N("grid"), Vector(N("difx_th_vint"), N("dify_th_vint")), "fill")),
        Assign(389, "conv_DIF_th",
               Bin(Same(Item(N("diff_DIF_th"), "X"), "neg"), Item(N("diff_DIF_th"), "Y"))),
        Show(390, N("conv_DIF_th")) >>,
     << Assign(400, "mean_adv_conv", Watts("conv_ADV_th")),
        Assign(401, "mean_dif_conv", Watts("conv_DIF_th")) >>,
     << Render(410, <<"m", "ax">>, MapCall(N("mapper"), N("mean_adv_conv"))),
        Local(411, <<>>, <<N("ax")>>) >>,
     << Render(420, <<"m", "ax">>, MapCall(N("mapper"), N("mean_dif_conv"))),
        Local(421, <<>>, <<N("ax")>>) >>,
     << Render(430, <<"m", "ax">>,
               MapCall(N("mapper"), Bin(N("mean_dif_conv"), N("mean_adv_conv")))),
        Local(431, <<>>, <<N("ax")>>) >>,
     << Render(440, <<"m", "ax">>,
               MapCall(N("mapper"), Load(Reduce(Var("TFLUX"), "mean", {"time"})))),
        Local(441, <<>>, <<N("ax")>>) >>,
     << >> >>

AltCells ==
  << << Import(26), Import(27), Import(28), Import(29),
        Local(30, <<>>, <<>>), Import(31) >>,
     << Import(49),
        S(50, "resolve", <<"ds">>, Call(<<>>, "to_dask"), "sea_surface_height"),
        Show(51, N("ds")) >>,
     << Local(69, <<"v">>, <<N("ds")>>) >>,
     << Local(88, <<>>, <<>>),
        Render(89, <<>>, Plot(SelNearest(Var("sla"), "time", <<2000, 1, 1>>))) >>,
     << Import(105), Import(106), Local(107, <<>>, <<>>) >>,
     << Assign(116, "dataset", HvDataset(Var("sla"))),
        Assign(117, "hv_im", HvTo(N("dataset"))),
        Import(121),
        Render(122, <<>>, Regrid(N("hv_im"))) >>,
     << Import(138), Import(140),
        S(141, "provision", <<"cluster">>, Call(<<>>, "KubeCluster"), "KubeCluster"),
        S(142, "adapt", <<>>, Call(<<N("cluster")>>, "adapt"), <<AltMinimum, AltMaximum>>),
        Show(143, N("cluster")) >>,
     << S(159, "connect", <<"client">>, Call(<<N("cluster")>>, "Client"), "Client"),
        Show(160, N("client")) >>,
     << Show(179, Call(<<Var("sla")>>, "nbytes")) >>,
     << Assign(189, "sla_timeseries",
               Load(Reduce(Var("sla"), "mean", {"latitude", "longitude"}))) >>,
     << Render(198, <<>>, Plot(N("sla_timeseries"))),
        Render(199, <<>>, Plot(Same(N("sla_timeseries"), "rolling_mean"))),
        Local(200, <<>>, <<>>), Local(201, <<>>, <<>>),
        Local(202, <<>>, <<>>), Local(203, <<>>, <<>>) >>,
     << Assign(219, "sla_hov", Load(Reduce(Var("sla"), "mean", {"longitude"}))) >>,
     << Local(228, <<"fig", "ax">>, <<>>),
        S(229, "setattr", <<"sla_hov">>, Call(<<N("sla_hov")>>, "setattr"), "name"),
        Render(230, <<>>, PlotOn(Same(N("sla_hov"), "transpose"), N("ax"))) >>,
     << Assign(255, "sla_std", Load(Reduce(Var("sla"), "std", {"time"}))),
        S(256, "setattr", <<"sla_std">>, Call(<<N("sla_std")>>, "setattr"), "name") >>,
     << Render(265, <<"ax">>, Plot(N("sla_std"))),
        Local(266, <<"_">>, <<>>) >>,
     << >> >>

\* variant: the cell that maps sst comes before the cell that binds it
CellsOutOfOrder(n) ==
    IF n = "ecco"
    THEN [c \in 1..Len(EccoCells) |->
            EccoCells[IF c = 6 THEN 7 ELSE IF c = 7 THEN 6 ELSE c]]
    ELSE AltCells

Cells(n) == IF n = "ecco" THEN EccoCells ELSE AltCells

Names ==
    {"ds", "coords", "mapper", "sst", "mean_sst", "cluster", "client", "theta_clim",
     "theta_anom", "rho0", "cp", "ohc", "face_connections", "grid",
     "advx_th_vint", "advy_th_vint", "diff_ADV_th", "conv_ADV_th",
     "difx_th_vint", "dify_th_vint", "diff_DIF_th", "conv_DIF_th",
     "mean_adv_conv", "mean_dif_conv", "m", "ax", "fig", "v", "_",
     "dataset", "hv_im", "sla_timeseries", "sla_hov", "sla_std"}


(***************************************************************************)
(* The remote store: the chunks a region of a stored variable lies in.     *)
(***************************************************************************)
\* variant: two time steps to a chunk
ChunkOfTwoSteps(v, t, k) == [var |-> v, t |-> t \div 2, k |-> k \div ChunkLevel]

ChunkOf(v, t, k) == [var |-> v, t |-> t \div ChunkTime, k |-> k \div ChunkLevel]

ChunkIds(r) ==
    {[var |-> r.var, t |-> tc, k |-> kc] :
        tc \in (ChunkOf(r.var, r.t0, r.k0).t)..(ChunkOf(r.var, r.t1, r.k1).t),
        kc \in (ChunkOf(r.var, r.t0, r.k0).k)..(ChunkOf(r.var, r.t1, r.k1).k)}

Chunks(deps) == UNION {ChunkIds(r) : r \in deps}

\* the levels a chunk holds
ChunkLevels(c) ==
    IF "k" \in VarDims(c.var)
    THEN (c.k * ChunkLevel)..(Min((c.k + 1) * ChunkLevel, NLevel) - 1)
    ELSE {0}

\* the data of a dataset's variables, as read by LLCMapper(coords)
DatasetArray(d) ==
    [type |-> "array", dims |-> {"face", "j", "i"}, deps |-> {Region(v) : v \in d.vars},
     loaded |-> FALSE, attrs |-> {}]

(***************************************************************************)
(* State.                                                                  *)
(***************************************************************************)
VARIABLES
    nb,         \* the notebook being executed
    pc,         \* [cell, stmt]: the statement the kernel is at
    phase,      \* "ready", "waiting" (blocked on a request), "error"
    done,       \* requests of the current statement already completed
    issued,     \* the requests issued so far by the current cell
    env,        \* the kernel namespace: name -> value
    inflight,   \* materialize requests submitted and not yet completed
    log,        \* completed requests, oldest first
    last,       \* the last completed request, with the chunks it read
    scheduler,  \* where dask runs a graph: "local" threads or the "cluster"
    pool,       \* the worker pool of the KubeCluster
    err,        \* the error shown to the user
    reran       \* whether the user has executed a cell a second time

vars == <<nb, pc, phase, done, issued, env, inflight, log, last, scheduler, pool, err,
         reran>>

NoPool ==
    [created |-> FALSE, adaptive |-> FALSE, minimum |-> 0, maximum |-> 0,
     target |-> 0, workers |-> 0, memoryGB |-> 0]
NoRequest == [line |-> 0, via |-> "none", backend |-> "none", deps |-> {}, chunks |-> {}]
NoError == [line |-> 0, what |-> "none"]

Init ==
    /\ nb \in Notebooks
    /\ pc = [cell |-> 1, stmt |-> 1]
    /\ phase = "ready"
    /\ done = 0
    /\ issued = <<>>
    /\ env = [n \in Names |-> Unbound]
    /\ inflight = <<>>
    /\ log = <<>>
    /\ last = NoRequest
    /\ scheduler = "local"
    /\ pool = NoPool
    /\ err = NoError
    /\ reran = FALSE

Finished == pc.cell > Len(Cells(nb))
AtStmt == ~Finished /\ pc.stmt <= Len(Cells(nb)[pc.cell])
CurStmt == Cells(nb)[pc.cell][pc.stmt]

\* the position after the current statement
NextPos ==
    IF pc.stmt < Len(Cells(nb)[pc.cell])
    THEN [pc EXCEPT !.stmt = @ + 1]
    ELSE [cell |-> pc.cell + 1, stmt |-> 1]


(***************************************************************************)
(* What a statement does.                                                  *)
(***************************************************************************)
\* variant: an assignment computes its array as soon as it is built
EagerRequests(st, ns) ==
    LET v == Eval(st.expr, ns)
        loads == Loads(st.expr, ns) IN
    IF IsErr(v) THEN <<>>
    ELSE [i \in 1..Len(loads) |-> [via |-> "load", arr |-> loads[i]]]
         \o (IF st.op \in {"render", "assign"} /\ IsLazy(v)
             THEN << [via |-> "render", arr |-> v] >> ELSE <<>>)
         \o (IF st.op = "mapper"
             THEN << [via |-> "mapper", arr |-> DatasetArray(v.coords)] >> ELSE <<>>)

\* the materialize requests a statement issues, in order: one per .load()
\* of a lazy array, one for a plot of a lazy array (the renderer asks for
\* the values), one for the coordinate data LLCMapper(coords) may read
Requests(st, ns) ==
    LET v == Eval(st.expr, ns)
        loads == Loads(st.expr, ns) IN
    IF IsErr(v) THEN <<>>
    ELSE [i \in 1..Len(loads) |-> [via |-> "load", arr |-> loads[i]]]
         \o (IF st.op = "render" /\ IsLazy(v)
             THEN << [via |-> "render", arr |-> v] >> ELSE <<>>)
         \o (IF st.op = "mapper"
             THEN << [via |-> "mapper", arr |-> DatasetArray(v.coords)] >> ELSE <<>>)

\* llcmapping.py is a separate module: whether its constructor reads
\* the coordinate data at once or on the first call is left open
OptionalRequest(st) == st.op = "mapper"

\* the names whose array a statement loads in place: NAME.load()
RECURSIVE InPlace(_)
InPlace(x) ==
    (IF x.e = "load" /\ x.kids[1].e = "name" THEN {x.kids[1].a} ELSE {})
      \cup UNION {InPlace(x.kids[i]) : i \in 1..Len(x.kids)}

\* the error a statement raises in a namespace, Unbound when it raises none
StmtError(st, ns) ==
    LET v == Eval(st.expr, ns) IN
    IF IsErr(v) THEN v
    ELSE IF st.op \in {"setitem", "setattr"} /\ ns[st.targets[1]].type # "array"
         THEN Err("AttributeError")
    ELSE Unbound

TargetSet(st) == {st.targets[i] : i \in 1..Len(st.targets)}

\* the namespace after a statement has run to its end
Bind(st, ns) ==
    LET v == Eval(st.expr, ns)
        base == [n \in Names |-> IF n \in InPlace(st.expr) THEN Loaded(ns[n]) ELSE ns[n]]
        new(n) ==
            CASE st.op \in {"assign", "mapper"} -> v
              [] st.op = "resolve" -> Catalog(st.arg)
              [] st.op = "provision" -> [type |-> "cluster"]
              [] st.op = "connect" -> [type |-> "client"]
              [] st.op \in {"setitem", "setattr"} ->
                    [base[n] EXCEPT !.attrs = @ \cup {st.arg}]
              [] OTHER -> Object
    IN [n \in Names |-> IF n \in TargetSet(st) THEN new(n) ELSE base[n]]

\* worker pods are made from kubernetes.worker-template: --memory-limit 20GB
WorkerTemplate == [memoryGB |-> WorkerMemoryGB, nthreads |-> 2]

\* KubeCluster() starts no worker; adapt() records the bounds and leaves
\* the scaling to the adaptive rounds that follow
PoolAfter(st, p) ==
    CASE st.op = "provision" ->
            [created |-> TRUE, adaptive |-> FALSE, minimum |-> 0, maximum |-> 0,
             target |-> 0, workers |-> 0, memoryGB |-> WorkerTemplate.memoryGB]
      [] st.op = "adapt" ->
            [p EXCEPT !.adaptive = TRUE, !.minimum = st.arg[1], !.maximum = st.arg[2]]
      [] OTHER -> p

\* variant: the client is created but not made the scheduler dask uses
SchedulerAfterUnregistered(st, sch) == sch

\* Client(cluster) registers the cluster as the scheduler dask uses from
\* then on; nothing else changes it
SchedulerAfter(st, sch) == IF st.op = "connect" THEN "cluster" ELSE sch

ExternalOps == {"resolve", "provision", "connect"}

(***************************************************************************)
(* The kernel.                                                             *)
(***************************************************************************)
\* a statement with no request left to wait for runs to its end, or raises
RunStatement ==
    /\ phase = "ready" /\ AtStmt
    /\ LET st == CurStmt
           e == StmtError(st, env) IN
       /\ done = Len(Requests(st, env)) \/ (OptionalRequest(st) /\ done = 0)
       /\ IF IsErr(e)
          THEN /\ phase' = "error"
               /\ err' = [line |-> st.line, what |-> e.what]
               /\ UNCHANGED <<pc, done, issued, env, pool, scheduler>>
          ELSE /\ env' = Bind(st, env)
               /\ pc' = NextPos
               /\ done' = 0
               /\ issued' = IF NextPos.cell # pc.cell THEN <<>> ELSE issued
               /\ pool' = PoolAfter(st, pool)
               /\ scheduler' = SchedulerAfter(st, scheduler)
               /\ UNCHANGED <<phase, err>>
    /\ UNCHANGED <<nb, inflight, log, last, reran>>

\* a cell without code
RunEmptyCell ==
    /\ phase = "ready" /\ ~Finished /\ Cells(nb)[pc.cell] = <<>>
    /\ pc' = [cell |-> pc.cell + 1, stmt |-> 1]
    /\ issued' = <<>>
    /\ UNCHANGED <<nb, phase, done, env, inflight, log, last, scheduler, pool, err, reran>>

\* variant: the request is handed over and the kernel goes on without waiting
SubmitWithoutBlocking ==
    /\ phase = "ready" /\ AtStmt
    /\ LET st == CurStmt
           reqs == Requests(st, env) IN
       /\ done < Len(reqs)
       /\ Len(inflight) < 2
       /\ inflight' = Append(inflight,
                             [line |-> st.line, via |-> reqs[done + 1].via,
                              backend |-> scheduler, deps |-> reqs[done + 1].arr.deps])
       /\ done' = done + 1
       /\ issued' = Append(issued, [line |-> st.line, via |-> reqs[done + 1].via])
    /\ UNCHANGED <<nb, pc, phase, env, log, last, scheduler, pool, err, reran>>

\* the statement hands its next request to the current scheduler and blocks
Submit ==
    /\ phase = "ready" /\ AtStmt
    /\ LET st == CurStmt
           reqs == Requests(st, env) IN
       /\ done < Len(reqs)
       /\ inflight' = Append(inflight,
                             [line |-> st.line, via |-> reqs[done + 1].via,
                              backend |-> scheduler, deps |-> reqs[done + 1].arr.deps])
       /\ phase' = "waiting"
       /\ issued' = Append(issued, [line |-> st.line, via |-> reqs[done + 1].via])
    /\ UNCHANGED <<nb, pc, done, env, log, last, scheduler, pool, err, reran>>

\* the request's chunks are read and its result handed back; on the
\* cluster this takes at least one worker
Complete ==
    /\ phase = "waiting" /\ inflight # <<>>
    /\ LET r == Head(inflight) IN
       /\ r.backend = "cluster" => pool.workers >= 1
       /\ last' = [line |-> r.line, via |-> r.via, backend |-> r.backend,
                   deps |-> r.deps, chunks |-> Chunks(r.deps)]
       /\ log' = Append(log, [line |-> r.line, via |-> r.via, backend |-> r.backend,
                              n |-> Cardinality(Chunks(r.deps))])
    /\ inflight' = Tail(inflight)
    /\ done' = done + 1
    /\ phase' = "ready"
    /\ UNCHANGED <<nb, pc, issued, env, scheduler, pool, err, reran>>

\* variant: a handler around the call binds the statement's targets anyway
FailBindsTargets ==
    /\ \/ phase = "waiting"
       \/ phase = "ready" /\ AtStmt /\ CurStmt.op \in ExternalOps
    /\ phase' = "error"
    /\ err' = [line |-> CurStmt.line, what |-> "external"]
    /\ inflight' = <<>>
    /\ env' = [n \in Names |-> IF n \in TargetSet(CurStmt) THEN Object ELSE env[n]]
    /\ UNCHANGED <<nb, pc, done, issued, log, last, scheduler, pool, reran>>

\* an external call fails: nothing catches it, the cell stops there
Fail ==
    /\ \/ phase = "waiting"
       \/ phase = "ready" /\ AtStmt /\ CurStmt.op \in ExternalOps
    /\ phase' = "error"
    /\ err' = [line |-> CurStmt.line, what |-> "external"]
    /\ inflight' = <<>>
    /\ UNCHANGED <<nb, pc, done, issued, env, log, last, scheduler, pool, reran>>

(***************************************************************************)
(* The adaptive provisioner.                                               *)
(***************************************************************************)
Demand == IF \E i \in 1..Len(inflight) : inflight[i].backend = "cluster"
          THEN 0..MaxDemand ELSE {0}

\* variant: the maximum is not applied
ClampNoMaximum(lo, hi, n) == Max(lo, n)

Clamp(lo, hi, n) == Max(lo, Min(hi, n))

\* an adaptive round: the target follows the load, within the bounds
AdaptTick ==
    /\ pool.created /\ pool.adaptive
    /\ \E d \in Demand :
          pool' = [pool EXCEPT !.target = Clamp(pool.minimum, pool.maximum, d)]
    /\ UNCHANGED <<nb, pc, phase, done, issued, env, inflight, log, last, scheduler, err, reran>>

\* a worker pod comes up
ScaleUp ==
    /\ pool.created /\ pool.workers < pool.target
    /\ pool' = [pool EXCEPT !.workers = @ + 1]
    /\ UNCHANGED <<nb, pc, phase, done, issued, env, inflight, log, last, scheduler, err, reran>>

\* a worker is retired
ScaleDown ==
    /\ pool.created /\ pool.workers > pool.target
    /\ pool' = [pool EXCEPT !.workers = @ - 1]
    /\ UNCHANGED <<nb, pc, phase, done, issued, env, inflight, log, last, scheduler, err, reran>>

Next ==
    \/ RunStatement
    \/ RunEmptyCell
    \/ Submit
    \/ Complete
    \/ Fail
    \/ AdaptTick
    \/ ScaleUp
    \/ ScaleDown

Spec == Init /\ [][Next]_vars

(***************************************************************************)
(* Interactive use: a cell is executed a second time.                      *)
(***************************************************************************)
\* the user executes again a cell of the ECCO notebook that has already
\* run; the kernel, idle between two cells, runs it in the namespace as it
\* is now and goes on with the cells below it
Rerun ==
    /\ nb = "ecco"
    /\ ~reran /\ phase = "ready" /\ pc.stmt = 1 /\ done = 0 /\ inflight = <<>>
    /\ \E c \in 1..(pc.cell - 1) :
          /\ Cells(nb)[c] # <<>>
          /\ pc' = [cell |-> c, stmt |-> 1]
    /\ issued' = <<>>
    /\ reran' = TRUE
    /\ UNCHANGED <<nb, phase, done, env, inflight, log, last, scheduler, pool, err>>

NextRerun ==
    \/ Next
    \/ Rerun

SpecRerun == Init /\ [][NextRerun]_vars



(***************************************************************************)
(* Properties.                                                             *)
(***************************************************************************)
StmtsOf(n) == Flatten(Cells(n))
StmtAtLine(n, line) ==
    LET ss == StmtsOf(n) IN ss[CHOOSE i \in 1..Len(ss) : ss[i].line = line]

RECURSIVE HasLoad(_)
HasLoad(x) == x.e = "load" \/ \E i \in 1..Len(x.kids) : HasLoad(x.kids[i])

\* an explicit .load(), or a call into the plotting layer (a plot, the
\* LLCMapper, the interactive regrid view)
Materializes(st) == st.op \in {"render", "mapper"} \/ HasLoad(st.expr)

AllRequests == [i \in 1..Len(log) |-> log[i].line] \o [i \in 1..Len(inflight) |-> inflight[i].line]

C2_AsStated ==
    pool.adaptive => (pool.minimum <= pool.workers /\ pool.workers <= pool.maximum)

\* C2: after adapt() the pool never holds more than maximum workers, and no
\* step takes it from at least minimum workers to fewer; right after
\* adapt() it can still hold fewer than minimum, since KubeCluster() starts
\* none and the workers come up one by one
C2_PoolBounds ==
    /\ [](pool.adaptive => pool.workers <= pool.maximum)
    /\ [][(pool.adaptive /\ pool'.adaptive /\ pool.workers >= pool.minimum)
            => pool'.workers >= pool.minimum]_vars

\* the altimetry pool is full and the load has gone: scale-down steps follow
C2_Witness ==
    /\ nb = "alt" /\ pool.adaptive
    /\ pool.workers = AltMaximum /\ pool.target = AltMinimum

LoadsIssued == {i \in 1..Len(issued) : issued[i].via = "load"}

\* C3 as stated: a cell issues at most one .load() request, and no two
\* requests are outstanding at once
C3_AsStated == Cardinality(LoadsIssued) <= 1 /\ Len(inflight) <= 1

\* C3: a cell can issue several requests, but each one blocks the kernel at
\* the statement that issued it until it is completed, so at most one is
\* outstanding at any time
C3_OneOutstanding ==
    /\ Len(inflight) <= 1
    /\ inflight # <<>> =>
          (phase = "waiting" /\ AtStmt /\ inflight[1].line = CurStmt.line)
    /\ phase = "waiting" => Len(inflight) = 1

\* the second .load() of the heat-budget cell is outstanding, the first done
C3_Witness ==
    /\ nb = "ecco" /\ Cardinality(LoadsIssued) = 2 /\ Len(inflight) = 1
    /\ inflight[1].line = 401 /\ env["mean_adv_conv"].type = "array"

\* C4: a failing external call stops the cell at the failing statement with
\* the error shown: the namespace is left as it was, so the names the cell
\* had not yet assigned keep their binding, and nothing runs afterwards
C4_ErrorPropagation ==
    /\ [][(phase # "error" /\ phase' = "error")
            => (env' = env /\ pc' = pc /\ err'.line = CurStmt.line /\ inflight' = <<>>)]_vars
    /\ [][phase = "error"
            => (phase' = "error" /\ env' = env /\ pc' = pc /\ err' = err /\ log' = log)]_vars

\* the second .load() of the heat-budget cell has failed: mean_adv_conv is
\* bound, mean_dif_conv is not
C4_Witness ==
    /\ nb = "ecco" /\ phase = "error" /\ err.line = 401
    /\ env["mean_adv_conv"].type = "array" /\ env["mean_dif_conv"].type = "unbound"

\* C5 as stated: once resolved, what ds denotes changes only by resolving
\* it again from the catalog
C5_AsStated ==
    [][(env["ds"].type = "dataset" /\ env'["ds"] # env["ds"])
         => (AtStmt /\ CurStmt.op = "resolve")]_vars

\* C5: once resolved, what ds denotes changes only by resolving it again or
\* by the ECCO cell ds = ds.reset_coords(drop=True), which rebinds ds to a
\* handle with the same variables and only the index coordinates
C5_DatasetHandle ==
    [][(env["ds"].type = "dataset" /\ env'["ds"] # env["ds"])
         => /\ AtStmt
            /\ \/ CurStmt.op = "resolve"
               \/ /\ nb = "ecco" /\ CurStmt.line = 74
                  /\ env'["ds"].type = "dataset"
                  /\ env'["ds"].vars = env["ds"].vars
                  /\ env'["ds"].coords = env["ds"].coords \cap IndexCoords]_vars

\* the ECCO notebook has run past the heat-content cell: ds lost Depth in
\* the coordinate-splitting cell and ohc was given the Z coordinate in place
C5_Witness ==
    /\ nb = "ecco" /\ env["ds"].type = "dataset" /\ "Depth" \notin env["ds"].coords
    /\ env["ohc"].type = "array" /\ "Z" \in env["ohc"].attrs


ClusterCellDone(n) ==
    /\ nb = n /\ env["cluster"].type = "cluster" /\ pool.adaptive
    /\ AtStmt /\ CurStmt.line > (IF n = "ecco" THEN 227 ELSE 143)

\* C6: once the ECCO cluster cell has run, the pool holds exactly five
\* workers, each with a memory limit of 20GB
C6_FiveNodes ==
    ClusterCellDone("ecco") =>
        (pool.workers = DocumentedNodes /\ pool.memoryGB = WorkerMemoryGB)

\* C7: every materialize request the ECCO notebook issues after its cluster
\* cell, from the re-run time mean at line 243 on, is routed to the cluster
C7_RoutedToCluster ==
    nb = "ecco" =>
        /\ \A i \in 1..Len(inflight) :
              inflight[i].line >= 243 => inflight[i].backend = "cluster"
        /\ \A i \in 1..Len(log) : log[i].line >= 243 => log[i].backend = "cluster"

ThetaChunks == {[var |-> "THETA", t |-> t, k |-> 0] : t \in 0..287}

\* C8: THETA lies in 288 chunks, one per time step, each holding all 50
\* levels; mean_sst.load() reads every one of them although it uses level 0
\* alone, and the plot of sst (time='2000-01-15', k=0) reads exactly one
C8_ChunkGranularity ==
    nb = "ecco" =>
        /\ (last.line = 192 /\ last.via = "load") =>
              /\ last.chunks = ThetaChunks
              /\ Cardinality(last.chunks) = 288
              /\ \A c \in last.chunks : ChunkLevels(c) = 0..49
              /\ \A r \in last.deps : r.var = "THETA" /\ r.k0 = 0 /\ r.k1 = 0
              /\ last.chunks = Chunks({Region("THETA")})
        /\ (last.line = 157 /\ last.via = "render") =>
              /\ Cardinality(last.chunks) = 1
              /\ last.chunks \subseteq ThetaChunks
              /\ \A r \in last.deps : r.t0 = r.t1 /\ r.k0 = 0 /\ r.k1 = 0

\* mean_sst.load() has just read its chunks, after the plot of sst read one
C8_Witness ==
    /\ nb = "ecco" /\ last.line = 192 /\ Cardinality(last.chunks) = 288
    /\ \E i \in 1..Len(log) : log[i].line = 157 /\ log[i].n = 1

Opposite(side) == 3 - side

\* the edge of the neighbour that an edge with neighbour n meets
MeetingEdge(n, side) == <<n[1], n[2], IF n[3] THEN side ELSE Opposite(side)>>


Edges(T) == {e \in (DOMAIN T) \X Axes \X Sides : T[e[1]][e[2]][e[3]] # None}

Reciprocal(T) ==
    \A e \in Edges(T) :
        LET n == T[e[1]][e[2]][e[3]]
            m == MeetingEdge(n, e[3]) IN
        /\ m[1] \in DOMAIN T
        /\ T[m[1]][m[2]][m[3]] = <<e[1], e[2], n[3]>>

NoSharedEdge(T) ==
    \A e1, e2 \in Edges(T) :
        e1 # e2 => MeetingEdge(T[e1[1]][e1[2]][e1[3]], e1[3])
                     # MeetingEdge(T[e2[1]][e2[2]][e2[3]], e2[3])

\* C9: the face connectivity the grid is built with is reciprocal: the edge
\* an entry points at points back at it with the same reverse flag, so no
\* two panel edges are attached to the same neighbouring edge
C9_Reciprocity ==
    env["grid"].type = "grid" =>
        (Reciprocal(env["grid"].topology) /\ NoSharedEdge(env["grid"].topology))

\* the grid has been built from face_connections
C9_Witness ==
    /\ env["grid"].type = "grid" /\ env["face_connections"].type = "topology"
    /\ env["grid"].topology[0]["X"][1] = <<12, "Y", FALSE>>

Neighbours(T, f) == {T[e[1]][e[2]][e[3]][1] : e \in {x \in Edges(T) : x[1] = f}}

RECURSIVE Reach(_, _)
Reach(T, fs) ==
    LET more == fs \cup UNION {Neighbours(T, f) \cap DOMAIN T : f \in fs} IN
    IF more = fs THEN fs ELSE Reach(T, more)

OpenEdges(T) == ((DOMAIN T) \X Axes \X Sides) \ Edges(T)

\* C10: the face connectivity the grid is built with has exactly the faces
\* 0..12, each with two sides on X and on Y; it names only faces 0..12;
\* every face is reachable from every other; and exactly four edges are
\* open: the left Y edge of faces 0 and 3, the right X edge of faces 9 and 12
C10_ClosedMesh ==
    env["grid"].type = "grid" =>
        LET T == env["grid"].topology IN
        /\ DOMAIN T = 0..12
        /\ Cardinality(DOMAIN T) = NFace
        /\ \A f \in DOMAIN T :
              /\ DOMAIN T[f] = Axes
              /\ \A a \in Axes : Len(T[f][a]) = 2
        /\ \A e \in Edges(T) : T[e[1]][e[2]][e[3]][1] \in 0..12
        /\ \A f \in DOMAIN T : Reach(T, {f}) = 0..12
        /\ OpenEdges(T) = {<<0, "Y", 1>>, <<3, "Y", 1>>, <<9, "X", 2>>, <<12, "X", 2>>}

\* the grid has been built, non-periodic, over the 13-face table
C10_Witness ==
    /\ env["grid"].type = "grid" /\ ~env["grid"].periodic
    /\ env["grid"].topology[12]["X"][2] = None


CellCentre == {"face", "j", "i"}
HasDims(name, dims) == env[name].type = "array" => env[name].dims = dims
BothAt(name, dims) ==
    env[name].type = "vector" => (env[name].X.dims = dims /\ env[name].Y.dims = dims)

\* C11: in the heat-budget cells the X flux integral lies at (face, j, i_g)
\* and the Y flux integral at (face, j_g, i); both components of
\* grid.diff_2d_vector lie at the cell centre (face, j, i), so their sum and
\* its quotient by the cell-centred area rA lie on (face, j, i), for the
\* advective and for the diffusive flux
C11_GridPositions ==
    nb = "ecco" =>
        /\ HasDims("advx_th_vint", {"face", "j", "i_g"})
        /\ HasDims("advy_th_vint", {"face", "j_g", "i"})
        /\ HasDims("difx_th_vint", {"face", "j", "i_g"})
        /\ HasDims("dify_th_vint", {"face", "j_g", "i"})
        /\ BothAt("diff_ADV_th", CellCentre) /\ BothAt("diff_DIF_th", CellCentre)
        /\ HasDims("conv_ADV_th", CellCentre) /\ HasDims("conv_DIF_th", CellCentre)
        /\ HasDims("mean_adv_conv", CellCentre) /\ HasDims("mean_dif_conv", CellCentre)
        /\ VarDims("rA") = CellCentre

\* both convergences have been computed and loaded
C11_Witness ==
    /\ nb = "ecco" /\ env["diff_ADV_th"].type = "vector" /\ env["diff_DIF_th"].type = "vector"
    /\ env["mean_adv_conv"].type = "array" /\ env["mean_adv_conv"].loaded
    /\ env["mean_dif_conv"].type = "array" /\ env["mean_dif_conv"].loaded

AltRequests == log \o [i \in 1..Len(inflight) |->
                         [line |-> inflight[i].line, via |-> inflight[i].via,
                          backend |-> inflight[i].backend, n |-> 0]]

\* C12: in the altimetry notebook every .load() (sla_timeseries, sla_hov,
\* sla_std) is issued with the cluster created, adapt(minimum=1, maximum=20)
\* called and Client(cluster) connected, and goes to the cluster; the only
\* requests that do not are the plot of ds.sla and the regrid view
C12_LoadsAfterClient ==
    nb = "alt" =>
        /\ \A i \in 1..Len(AltRequests) :
              LET r == AltRequests[i] IN
              /\ r.via = "load" =>
                    (r.line \in {189, 219, 255} /\ r.backend = "cluster")
              /\ r.backend # "cluster" => (r.line \in {89, 122} /\ r.via = "render")
        /\ \A i \in 1..Len(inflight) :
              inflight[i].via = "load" =>
                 /\ env["cluster"].type = "cluster" /\ env["client"].type = "client"
                 /\ pool.created /\ pool.adaptive
                 /\ pool.minimum = 1 /\ pool.maximum = 20
                 /\ scheduler = "cluster"

\* all three reductions have been loaded on the cluster, after the two
\* local renderings
C12_Witness ==
    /\ nb = "alt" /\ Len(log) = 5
    /\ \A l \in {189, 219, 255} :
          \E i \in 1..Len(log) : log[i].line = l /\ log[i].backend = "cluster"
    /\ \A l \in {89, 122} :
          \E i \in 1..Len(log) : log[i].line = l /\ log[i].backend = "local"

\* C13: in a run of either notebook from the first cell to the last, every
\* name the statement about to run reads has been bound by an earlier cell
\* or an earlier statement of the same cell, and no statement raises
\* NameError
C13_DefinitionBeforeUse ==
    /\ AtStmt => \A n \in Reads(CurStmt.expr) : env[n].type # "unbound"
    /\ err.what # "NameError"

\* the ECCO notebook has run to its last cell without an error, its last
\* reads (mapper, mean_dif_conv, mean_adv_conv, ds, ax) all bound
C13_Witness ==
    /\ nb = "ecco" /\ Finished /\ phase # "error" /\ err = NoError
    /\ \A n \in {"ds", "coords", "mapper", "grid", "mean_adv_conv", "mean_dif_conv", "ax"} :
          env[n].type # "unbound"

NonIndex == Catalog("ECCOv4r3").coords \ IndexCoords

\* the dataset d holds none of Depth, rA, hFacC, Z
Stripped(d) == d.type = "dataset" /\ (d.vars \cup d.coords) \cap NonIndex = {}

\* the expression reads coords.Depth, coords.rA, coords.hFacC or coords.Z
RECURSIVE ReadsNonIndex(_)
ReadsNonIndex(x) ==
    \/ x.e = "attr" /\ x.a \in NonIndex /\ x.kids[1] = N("coords")
    \/ \E i \in 1..Len(x.kids) : ReadsNonIndex(x.kids[i])

\* the statement at the given line of the ECCO notebook runs to its end
Runs(line) == nb = "ecco" /\ AtStmt /\ CurStmt.line = line /\ pc' = NextPos

\* C14: the coordinate-splitting cell is not idempotent.  Run on the
\* dataset as resolved, line 73 leaves coords holding Depth, rA, hFacC and Z
\* as variables and line 74 leaves ds with its variables and without them;
\* run on the stripped ds, which happens only when the cell is executed
\* again, line 73 leaves coords without any of them, and then every later
\* statement that reads one of them from coords raises an error
C14_NotIdempotent ==
    /\ [][Runs(73) =>
            IF env["ds"] = Catalog("ECCOv4r3")
            THEN env'["coords"].vars = NonIndex /\ NonIndex = {"Depth", "rA", "hFacC", "Z"}
            ELSE reran /\ Stripped(env["ds"]) /\ Stripped(env'["coords"])]_vars
    /\ [][(Runs(74) /\ env["ds"] = Catalog("ECCOv4r3")) =>
            /\ Stripped(env'["ds"]) /\ env'["ds"].vars = env["ds"].vars
            /\ env'["coords"] = env["coords"] /\ ~Stripped(env["coords"])]_vars
    /\ [](nb = "ecco" /\ Stripped(env["coords"]) =>
            /\ reran
            /\ \A v \in NonIndex : Eval(Coord(v), env) = Err("AttributeError")
            /\ \A i \in 1..Len(StmtsOf("ecco")) :
                  LET st == StmtsOf("ecco")[i] IN
                  (st.line > 74 /\ ReadsNonIndex(st.expr)) => IsErr(StmtError(st, env)))

\* the cell has been executed a second time on the stripped ds: coords holds
\* no variable and the next cell, coords.Depth.plot(...), has failed
C14_Witness ==
    /\ nb = "ecco" /\ reran /\ Stripped(env["coords"]) /\ Stripped(env["ds"])
    /\ phase = "error" /\ err.line = 98 /\ err.what = "AttributeError"

====
